---- MODULE Spec2Model ----
(***************************************************************************)
(* The relations service of arxiv-external-links: the controllers          *)
(* (relations/controllers.py) over the services create.py and get.py and   *)
(* the two tables of services/model.py.                                    *)
(*                                                                         *)
(* Each request runs on its own worker with its own scoped database        *)
(* session.  A worker's steps are the points at which it talks to the      *)
(* database: the controller's reads, the service's read, the statements    *)
(* of the flush that db.session.commit() emits, and the COMMIT itself.     *)
(* Between two such points another worker may take any of its own steps.   *)
(* The database is a relational store with per-table auto-increment keys,  *)
(* row locks taken by UPDATE, atomic COMMIT and ROLLBACK.                  *)
(***************************************************************************)
EXTENDS Integers, FiniteSets, Sequences, TLC

\* ------------------------------------------------------------------ bounds
\* The requests build at most MaxId RelationDB objects in all, so that no
\* table's auto-increment key is drawn beyond MaxId.
MaxId == 3

\* The request-handling workers (one scoped session each).
Workers == {"w1", "w2"}

\* ------------------------------------------------------------------ values
\* NULL of an integer column / None of an Optional value.
Null == -1
\* None of the Optional[str] creator.
NoCreator == "<None>"
\* A key that the payload dictionary does not hold.
NoKey == "<absent>"

\* domain.RelationType
RelationType == {"ADD", "EDIT", "SUPPRESS"}

\* The payload dictionaries of the requests.  A key that is absent is NoKey.
FullPayload == [resource_type |-> "DOI", resource_id |-> "10.1/x", description |-> "test", creator |-> "tester"]
EmptyPayload == [resource_type |-> "", resource_id |-> "", description |-> NoKey, creator |-> NoKey]
ShortPayload == [resource_type |-> NoKey, resource_id |-> "10.1/y", description |-> NoKey, creator |-> NoKey]
NoPayload == [resource_type |-> NoKey, resource_id |-> NoKey, description |-> NoKey, creator |-> NoKey]

\* What the requests submit: the e-print of the route and the payload.
Submissions ==
    { [arxiv_id |-> "1234.56789", arxiv_ver |-> 1, payload |-> FullPayload],
      [arxiv_id |-> "1234.56789", arxiv_ver |-> 2, payload |-> EmptyPayload],
      [arxiv_id |-> "1234.56789", arxiv_ver |-> 1, payload |-> ShortPayload] }

\* The e-prints a listing is asked for: those of the submissions.
EPrints == { [arxiv_id |-> sub.arxiv_id, arxiv_ver |-> sub.arxiv_ver] : sub \in Submissions }

\* The submission of a request that is answered before its e-print and
\* payload are read.
NoSubmission == [arxiv_id |-> "", arxiv_ver |-> 0, payload |-> NoPayload]

\* str(n) of a relation identifier.
StrOfId(n) == ToString(n)

\* The relation_id_str values of the requests: the decimal strings of the
\* keys the tables can hold, and one string that is not a number.
RelationIdStrs == { StrOfId(n) : n \in 1..MaxId } \cup {"abc"}

\* Whether int(s) succeeds (s is a decimal string).
IsIntStr(s) == \E n \in 0..(MaxId + 1) : StrOfId(n) = s

\* int(s) for a string on which int() succeeds.
IntOfStr(s) == CHOOSE n \in 0..(MaxId + 1) : StrOfId(n) = s

\* The value an integer column is compared with when the bound parameter is
\* the string s (ActivationDB.id == relation_id): the number s denotes; a
\* string that denotes no number equals no key.
NoMatch == 0
CoerceId(s) == IF IsIntStr(s) THEN IntOfStr(s) ELSE NoMatch

\* dict.get(key, default)
PayloadGet(payload, key, default) ==
    IF payload[key] = NoKey THEN default ELSE payload[key]

\* A value of the Python side whose type matters: an int, a str or None.
PyInt(n) == [type |-> "int", ival |-> n, sval |-> ""]
PyStr(s) == [type |-> "str", ival |-> 0, sval |-> s]
PyNone == [type |-> "None", ival |-> 0, sval |-> ""]

\* A RelationDB object whose supercedes_or_suppresses is left None.
RelationDB_without_predecessor(rel_type, c, resource_type, resource_id, added_at, pred) ==
    [ rel_type |-> rel_type, arxiv_id |-> c.arxiv_id, arxiv_ver |-> c.arxiv_ver,
      resource_type |-> resource_type, resource_id |-> resource_id,
      description |-> PayloadGet(c.payload, "description", ""),
      added_at |-> added_at,
      creator |-> PayloadGet(c.payload, "creator", NoCreator),
      supercedes_or_suppresses |-> Null ]

\* A RelationDB object (a row of 'relations' without its key), built from
\* the request c.
RelationDB(rel_type, c, resource_type, resource_id, added_at, pred) ==
    [ rel_type |-> rel_type, arxiv_id |-> c.arxiv_id, arxiv_ver |-> c.arxiv_ver,
      resource_type |-> resource_type, resource_id |-> resource_id,
      description |-> PayloadGet(c.payload, "description", ""),
      added_at |-> added_at,
      creator |-> PayloadGet(c.payload, "creator", NoCreator),
      supercedes_or_suppresses |-> pred ]

NoRow ==
    [ rel_type |-> "none", arxiv_id |-> "", arxiv_ver |-> 0,
      resource_type |-> "", resource_id |-> "", description |-> "",
      added_at |-> 0, creator |-> NoCreator, supercedes_or_suppresses |-> Null ]

\* domain.Relation with the columns of row; its identifier and its
\* predecessor are Python values.
Relation(identifier, row, pred) ==
    [ identifier |-> identifier, relation_type |-> row.rel_type,
      e_print |-> [arxiv_id |-> row.arxiv_id, version |-> row.arxiv_ver],
      resource |-> [resource_type |-> row.resource_type,
                    identifier |-> row.resource_id],
      description |-> row.description, added_at |-> row.added_at,
      creator |-> row.creator, supercedes_or_suppresses |-> pred ]

NoRelation == Relation(PyNone, NoRow, PyNone)

\* ------------------------------------------------------------------- state
VARIABLES
    relations,       \* committed rows of table 'relations': id -> row
    active_records,  \* committed rows of table 'active_records': id -> active
    relSeq,          \* next auto-increment key of 'relations'
    actSeq,          \* next auto-increment key of 'active_records'
    clock,           \* datetime.now()
    pc,              \* each worker's position in its request
    call,            \* each worker's request, while it handles one
    sess,            \* each worker's session: the uncommitted unit of work
    response         \* what the step just taken answered, if it answered

vars == <<relations, active_records, relSeq, actSeq, clock, pc, call, sess, response>>

\* A session with nothing pending.
EmptySession ==
    [ prev |-> Null,        \* key of the loaded predecessor activation
      dirty |-> FALSE,      \* prev_act.active was changed to False
      locked |-> FALSE,     \* the UPDATE was emitted: the row lock is held
      rel_data |-> NoRow,   \* the pending RelationDB
      act_id |-> Null,      \* key the INSERT into active_records was given
      rel_id |-> Null ]     \* key the INSERT into relations was given

\* No request.  fresh tells that no committed relation named the predecessor
\* when the controller checked that it is active.
NoCall ==
    [ op |-> "none", arxiv_id |-> "", arxiv_ver |-> 0, relation_id |-> "",
      payload |-> NoPayload, fresh |-> FALSE ]

\* The result dictionary of controllers.retrieve: its three entries.
RetrieveResult(arxiv_id, arxiv_ver, dicts) ==
    [ arxiv_id |-> arxiv_id, version |-> arxiv_ver, relations |-> dicts ]

NoResult == RetrieveResult("", 0, {})

\* No response.  A response names the worker, the operation and predecessor
\* it answers; io tells that the database failed (an I/O error, not an
\* answer).  rel is the relation create_new, supercede and suppress return,
\* result the dictionary retrieve returns for a request with active_only.
NoResponse ==
    [ worker |-> "none", op |-> "none", relation_id |-> "", fresh |-> FALSE,
      status |-> "none", error |-> "none", io |-> FALSE, rel |-> NoRelation,
      active_only |-> FALSE, result |-> NoResult ]

Init ==
    /\ relations = <<>>
    /\ active_records = <<>>
    /\ relSeq = 1
    /\ actSeq = 1
    /\ clock = 1
    /\ pc = [p \in Workers |-> "idle"]
    /\ call = [p \in Workers |-> NoCall]
    /\ sess = [p \in Workers |-> EmptySession]
    /\ response = NoResponse

\* ------------------------------------------------------------------ reads
\* util.relation_from_DB, which get.py does not use: the identifier is
\* str(rel_data.id).
relation_from_DB_str_identifier(id, row) ==
    Relation(PyStr(StrOfId(id)), row,
             IF row.supercedes_or_suppresses = Null THEN PyNone
             ELSE PyInt(row.supercedes_or_suppresses))

\* get.relation_from_DB: the Relation of the row of 'relations' with key id.
relation_from_DB(id, row) ==
    Relation(PyInt(id), row,
             IF row.supercedes_or_suppresses = Null THEN PyNone
             ELSE PyInt(row.supercedes_or_suppresses))

\* get.from_id: the exception it raises on the committed tables, or "ok".
\* int(id) is evaluated inside the try block, so a string that is not a
\* number ends in the generic handler.
from_id_error(id) ==
    IF ~IsIntStr(id) THEN "DBLookUpError"
    ELSE IF IntOfStr(id) \notin DOMAIN relations THEN "NotFoundError"
    ELSE "ok"

\* get.from_id: the Relation it returns when it raises nothing.
from_id(id) == relation_from_DB(IntOfStr(id), relations[IntOfStr(id)])

\* is_active, the function the controllers import from services.get: the
\* activation flag of the record keyed by the identifier; NotFoundError when
\* there is no such record.
is_active_error(id) ==
    IF CoerceId(id) \notin DOMAIN active_records THEN "NotFoundError" ELSE "ok"

is_active(id) == active_records[CoerceId(id)]

\* The rows of the query of get.from_e_print with active_only: the pairs of a
\* relation and an activation record that a join without its ON clause
\* gives, filtered by e-print and flag.
active_rows_cross_join(arxiv_id, arxiv_ver) ==
    { row \in (DOMAIN relations) \X (DOMAIN active_records) :
        /\ relations[row[1]].arxiv_id = arxiv_id
        /\ relations[row[1]].arxiv_ver = arxiv_ver
        /\ active_records[row[2]] }

\* The rows of the query of get.from_e_print with active_only: the pairs of a
\* relation and an activation record joined on RelationDB.id ==
\* ActivationDB.id, filtered by e-print and flag.
active_rows(arxiv_id, arxiv_ver) ==
    { row \in (DOMAIN relations) \X (DOMAIN active_records) :
        /\ row[1] = row[2]
        /\ relations[row[1]].arxiv_id = arxiv_id
        /\ relations[row[1]].arxiv_ver = arxiv_ver
        /\ active_records[row[2]] }

\* get.from_e_print on the committed tables: the keys of the rows returned
\* (with active_only the first element of each row).
from_e_print(arxiv_id, arxiv_ver, active_only) ==
    IF active_only
    THEN { row[1] : row \in active_rows(arxiv_id, arxiv_ver) }
    ELSE { id \in DOMAIN relations :
             /\ relations[id].arxiv_id = arxiv_id
             /\ relations[id].arxiv_ver = arxiv_ver }

\* --------------------------------------------------------------- requests
\* The workers whose request has yet to build its RelationDB.
Waiting == { p \in Workers : pc[p] \in {"is_active", "supercede", "suppress"} }

\* A request starts when it can build its RelationDB and draw its keys within
\* MaxId: every RelationDB built reads the clock, which starts at 1.
Room == clock + Cardinality(Waiting) <= MaxId

\* The committed relations that name id as their predecessor.
Successors(id) ==
    { n \in DOMAIN relations : relations[n].supercedes_or_suppresses = id }

\* The request that arrives at a worker.
Incoming(op, sub, rid) ==
    [ op |-> op, arxiv_id |-> sub.arxiv_id, arxiv_ver |-> sub.arxiv_ver,
      relation_id |-> rid, payload |-> sub.payload, fresh |-> FALSE ]

\* The response of worker p to request c.
Response(p, c, status, error, io, rel) ==
    [ worker |-> p, op |-> c.op, relation_id |-> c.relation_id,
      fresh |-> c.fresh, status |-> status, error |-> error, io |-> io,
      rel |-> rel, active_only |-> FALSE, result |-> NoResult ]

\* A controller that lets the exception through instead of raising
\* InternalServerError.
Raise_reraising(p, c, error, io) ==
    /\ response' = Response(p, c, error, error, io, NoRelation)
    /\ pc' = [pc EXCEPT ![p] = "idle"]
    /\ sess' = [sess EXCEPT ![p] = EmptySession]
    /\ call' = [call EXCEPT ![p] = NoCall]

\* The controller raises InternalServerError for request c; the session
\* keeps nothing of the request.
Raise(p, c, error, io) ==
    /\ response' = Response(p, c, "InternalServerError", error, io, NoRelation)
    /\ pc' = [pc EXCEPT ![p] = "idle"]
    /\ sess' = [sess EXCEPT ![p] = EmptySession]
    /\ call' = [call EXCEPT ![p] = NoCall]

\* The status code of the HTTP response: that of the exception the controller
\* raised, or of the HTTPStatus it returned.
HTTPStatusCode(status) ==
    IF status = "OK" THEN 200
    ELSE IF status = "InternalServerError" THEN 500
    ELSE 0

\* The request c of worker p goes on to its next step.
Goto(p, c, next) ==
    /\ pc' = [pc EXCEPT ![p] = next]
    /\ call' = [call EXCEPT ![p] = c]
    /\ response' = NoResponse

\* controllers.create_new with create.create up to its commit: the payload
\* keys are read (KeyError), the RelationDB is built and added to the session.
create_new(p) ==
    /\ pc[p] = "idle"
    /\ Room
    /\ \E sub \in Submissions :
         LET c == Incoming("create_new", sub, "") IN
         IF c.payload.resource_type = NoKey \/ c.payload.resource_id = NoKey
         THEN /\ Raise(p, c, "KeyError", FALSE)
              /\ UNCHANGED clock
         ELSE /\ sess' = [sess EXCEPT ![p] =
                    [EmptySession EXCEPT !.rel_data =
                       RelationDB("ADD", c, c.payload.resource_type,
                                  c.payload.resource_id, clock, Null)]]
              /\ clock' = clock + 1
              /\ Goto(p, c, "flush_active_records")
    /\ UNCHANGED <<relations, active_records, relSeq, actSeq>>

\* The check with the flag that is_active returns ignored: only the failures
\* of the lookup stop the request.
is_active_check_ignoring_flag(id, io) ==
    IF io THEN "DBLookUpError"
    ELSE IF is_active_error(id) # "ok" THEN is_active_error(id)
    ELSE "ok"

\* The check of controllers.supercede lines 117-119 and controllers.suppress
\* lines 188-190 for predecessor id: the database fails (io), is_active raises, or
\* the previous relation is already inactive; "ok" when the request goes on.
is_active_check(id, io) ==
    IF io THEN "DBLookUpError"
    ELSE IF is_active_error(id) # "ok" THEN is_active_error(id)
    ELSE IF ~is_active(id) THEN "Inactive"
    ELSE "ok"

\* The request c once the check has let it pass.
Checked(c) == [c EXCEPT !.fresh = Successors(CoerceId(c.relation_id)) = {}]

\* controllers.supercede, lines 113-119: check if the previous relation is
\* active.
supercede_is_active(p) ==
    /\ pc[p] = "idle"
    /\ Room
    /\ \E rid \in RelationIdStrs, io \in BOOLEAN :
         LET err == is_active_check(rid, io) IN
         IF err # "ok"
         THEN Raise(p, Incoming("supercede", NoSubmission, rid), err, io)
         ELSE /\ \E sub \in Submissions :
                   Goto(p, Checked(Incoming("supercede", sub, rid)), "supercede")
              /\ UNCHANGED sess
    /\ UNCHANGED <<relations, active_records, relSeq, actSeq, clock>>

\* controllers.suppress, lines 181-186: from_id(prev_rel_id) -- the previous
\* relation needs to exist.
suppress_from_id(p) ==
    /\ pc[p] = "idle"
    /\ Room
    /\ \E rid \in RelationIdStrs, io \in BOOLEAN :
         LET err == IF io THEN "DBLookUpError" ELSE from_id_error(rid) IN
         IF err # "ok"
         THEN Raise(p, Incoming("suppress", NoSubmission, rid), err, io)
         ELSE /\ \E sub \in Submissions :
                   Goto(p, Incoming("suppress", sub, rid), "is_active")
              /\ UNCHANGED sess
    /\ UNCHANGED <<relations, active_records, relSeq, actSeq, clock>>

\* controllers.suppress, lines 188-190: check if the previous relation is
\* active.
suppress_is_active(p) ==
    /\ pc[p] = "is_active"
    /\ \E io \in BOOLEAN :
         LET err == is_active_check(call[p].relation_id, io) IN
         IF err # "ok"
         THEN Raise(p, call[p], err, io)
         ELSE /\ Goto(p, Checked(call[p]), "suppress")
              /\ UNCHANGED sess
    /\ UNCHANGED <<relations, active_records, relSeq, actSeq, clock>>

\* create.supercede up to its commit (with the payload keys the controller
\* reads for the call): the RelationDB is built, the predecessor's activation
\* is loaded with .one() and set to False, the new objects are added.  The
\* Integer column takes str(relation_id) as the number it denotes.
supercede(p) ==
    /\ pc[p] = "supercede"
    /\ LET c == call[p]
           prev == CoerceId(c.relation_id) IN
       IF c.payload.resource_type = NoKey \/ c.payload.resource_id = NoKey
       THEN /\ Raise(p, c, "KeyError", FALSE)
            /\ UNCHANGED clock
       ELSE /\ clock' = clock + 1
            /\ IF prev \notin DOMAIN active_records
               THEN Raise(p, c, "StorageError", FALSE)
               ELSE /\ sess' = [sess EXCEPT ![p] =
                          [EmptySession EXCEPT
                             !.prev = prev,
                             !.dirty = active_records[prev],
                             !.rel_data =
                               RelationDB("EDIT", c, c.payload.resource_type,
                                          c.payload.resource_id, clock, prev)]]
                    /\ Goto(p, c, "flush_active_records")
    /\ UNCHANGED <<relations, active_records, relSeq, actSeq>>

\* create.suppress building its RelationDB from the resource fields of the
\* payload instead of those of the predecessor.
suppress_with_payload_resource(p) ==
    /\ pc[p] = "suppress"
    /\ LET c == call[p]
           prev == CoerceId(c.relation_id) IN
       IF prev \notin DOMAIN relations \/ prev \notin DOMAIN active_records
       THEN /\ Raise(p, c, "StorageError", FALSE)
            /\ UNCHANGED clock
       ELSE /\ sess' = [sess EXCEPT ![p] =
                  [EmptySession EXCEPT
                     !.prev = prev,
                     !.dirty = active_records[prev],
                     !.rel_data =
                       RelationDB("SUPPRESS", c, c.payload.resource_type,
                                  c.payload.resource_id, clock, prev)]]
            /\ clock' = clock + 1
            /\ Goto(p, c, "flush_active_records")
    /\ UNCHANGED <<relations, active_records, relSeq, actSeq>>

\* create.suppress up to its commit: the predecessor and its activation are
\* loaded with .one(), the activation is set to False, the RelationDB is built
\* with the predecessor's resource, the new objects are added.
suppress(p) ==
    /\ pc[p] = "suppress"
    /\ LET c == call[p]
           prev == CoerceId(c.relation_id) IN
       IF prev \notin DOMAIN relations \/ prev \notin DOMAIN active_records
       THEN /\ Raise(p, c, "StorageError", FALSE)
            /\ UNCHANGED clock
       ELSE /\ sess' = [sess EXCEPT ![p] =
                  [EmptySession EXCEPT
                     !.prev = prev,
                     !.dirty = active_records[prev],
                     !.rel_data =
                       RelationDB("SUPPRESS", c, relations[prev].resource_type,
                                  relations[prev].resource_id, clock, prev)]]
            /\ clock' = clock + 1
            /\ Goto(p, c, "flush_active_records")
    /\ UNCHANGED <<relations, active_records, relSeq, actSeq>>

\* ------------------------------------------------------ db.session.commit()
\* Whether another session holds the lock of row id of 'active_records'.
RowLocked(p, id) ==
    \E q \in Workers \ {p} : sess[q].locked /\ sess[q].prev = id

\* The flush, table 'active_records': UPDATE of the predecessor's row when its
\* flag was changed (waits for the row's lock), INSERT of the new activation.
\* The ActivationDB was built with id=rel_data.id before any flush, that is
\* with id=None: the table's auto-increment gives the key.
flush_active_records(p) ==
    /\ pc[p] = "flush_active_records"
    /\ sess[p].dirty => ~RowLocked(p, sess[p].prev)
    /\ sess' = [sess EXCEPT ![p].locked = sess[p].dirty, ![p].act_id = actSeq]
    /\ actSeq' = actSeq + 1
    /\ pc' = [pc EXCEPT ![p] = "flush_relations"]
    /\ response' = NoResponse
    /\ UNCHANGED <<relations, active_records, relSeq, clock, call>>

\* An INSERT into 'relations' that takes the key without advancing the
\* table's sequence.
flush_relations_not_advancing(p) ==
    /\ pc[p] = "flush_relations"
    /\ sess' = [sess EXCEPT ![p].rel_id = relSeq]
    /\ pc' = [pc EXCEPT ![p] = "commit"]
    /\ response' = NoResponse
    /\ UNCHANGED <<relations, active_records, relSeq, actSeq, clock, call>>

\* The flush, table 'relations': INSERT of the new relation; the table's
\* auto-increment gives the key.
flush_relations(p) ==
    /\ pc[p] = "flush_relations"
    /\ sess' = [sess EXCEPT ![p].rel_id = relSeq]
    /\ relSeq' = relSeq + 1
    /\ pc' = [pc EXCEPT ![p] = "commit"]
    /\ response' = NoResponse
    /\ UNCHANGED <<relations, active_records, actSeq, clock, call>>

\* The Relation the service returns after the commit.  identifier and
\* added_at are attributes of rel_data, reloaded from its row; the e-print,
\* the description and the creator are the call's arguments; the resource is
\* the call's arguments in create and supercede and rel_data's columns in
\* suppress; the type is a literal in create and supercede and rel_data's
\* column in suppress.  As predecessor create returns None, supercede the
\* reloaded column and suppress str(relation_id).
Returned(c, id, row) ==
    LET args == [ row EXCEPT
                    !.rel_type = CASE c.op = "create_new" -> "ADD"
                                   [] c.op = "supercede" -> "EDIT"
                                   [] c.op = "suppress" -> row.rel_type,
                    !.arxiv_id = c.arxiv_id,
                    !.arxiv_ver = c.arxiv_ver,
                    !.resource_type = IF c.op = "suppress" THEN row.resource_type
                                      ELSE c.payload.resource_type,
                    !.resource_id = IF c.op = "suppress" THEN row.resource_id
                                    ELSE c.payload.resource_id,
                    !.description = PayloadGet(c.payload, "description", ""),
                    !.creator = PayloadGet(c.payload, "creator", NoCreator) ]
    IN Relation(PyInt(id), args,
                CASE c.op = "create_new" -> PyNone
                  [] c.op = "supercede" -> PyInt(row.supercedes_or_suppresses)
                  [] c.op = "suppress" -> PyStr(c.relation_id))

\* A COMMIT whose UPDATE toggles the predecessor's flag instead of clearing it.
commit_toggling_predecessor(p) ==
    /\ pc[p] = "commit"
    /\ LET s == sess[p] IN
       /\ active_records' =
            (IF s.locked
             THEN [active_records EXCEPT ![s.prev] = ~active_records[s.prev]]
             ELSE active_records) @@ (s.act_id :> TRUE)
       /\ relations' = relations @@ (s.rel_id :> s.rel_data)
       /\ response' = Response(p, call[p], "OK", "none", FALSE,
                               Returned(call[p], s.rel_id, s.rel_data))
    /\ sess' = [sess EXCEPT ![p] = EmptySession]
    /\ call' = [call EXCEPT ![p] = NoCall]
    /\ pc' = [pc EXCEPT ![p] = "idle"]
    /\ UNCHANGED <<relSeq, actSeq, clock>>

\* A COMMIT that also rewrites the description of the predecessor's relation.
commit_rewriting_predecessor(p) ==
    /\ pc[p] = "commit"
    /\ LET s == sess[p] IN
       /\ active_records' =
            (IF s.locked THEN [active_records EXCEPT ![s.prev] = FALSE]
                         ELSE active_records) @@ (s.act_id :> TRUE)
       /\ relations' =
            [ n \in DOMAIN relations |->
                IF n = s.prev THEN [relations[n] EXCEPT !.description = "superseded"]
                ELSE relations[n] ] @@ (s.rel_id :> s.rel_data)
       /\ response' = Response(p, call[p], "OK", "none", FALSE,
                               Returned(call[p], s.rel_id, s.rel_data))
    /\ sess' = [sess EXCEPT ![p] = EmptySession]
    /\ call' = [call EXCEPT ![p] = NoCall]
    /\ pc' = [pc EXCEPT ![p] = "idle"]
    /\ UNCHANGED <<relSeq, actSeq, clock>>

\* The COMMIT of a session whose INSERT into active_records is lost: the new
\* relation is stored without an activation record.
commit_without_activation(p) ==
    /\ pc[p] = "commit"
    /\ LET s == sess[p] IN
       /\ active_records' =
            (IF s.locked THEN [active_records EXCEPT ![s.prev] = FALSE]
                         ELSE active_records)
       /\ relations' = relations @@ (s.rel_id :> s.rel_data)
       /\ response' = Response(p, call[p], "OK", "none", FALSE,
                               Returned(call[p], s.rel_id, s.rel_data))
    /\ sess' = [sess EXCEPT ![p] = EmptySession]
    /\ call' = [call EXCEPT ![p] = NoCall]
    /\ pc' = [pc EXCEPT ![p] = "idle"]
    /\ UNCHANGED <<relSeq, actSeq, clock>>

\* COMMIT: what the flush wrote becomes visible at once, the lock is
\* released, and the controller returns the relation with HTTPStatus.OK.
commit(p) ==
    /\ pc[p] = "commit"
    /\ LET s == sess[p] IN
       /\ active_records' =
            (IF s.locked THEN [active_records EXCEPT ![s.prev] = FALSE]
                         ELSE active_records) @@ (s.act_id :> TRUE)
       /\ relations' = relations @@ (s.rel_id :> s.rel_data)
       /\ response' = Response(p, call[p], "OK", "none", FALSE,
                               Returned(call[p], s.rel_id, s.rel_data))
    /\ sess' = [sess EXCEPT ![p] = EmptySession]
    /\ call' = [call EXCEPT ![p] = NoCall]
    /\ pc' = [pc EXCEPT ![p] = "idle"]
    /\ UNCHANGED <<relSeq, actSeq, clock>>

\* The failure handler without its rollback: the session's connection is
\* given back with what the flush wrote, which the database then keeps.
rollback_keeping_flush(p) ==
    /\ pc[p] \in {"flush_active_records", "flush_relations", "commit"}
    /\ Raise(p, call[p], "StorageError", TRUE)
    /\ active_records' =
         IF sess[p].act_id = Null THEN active_records
         ELSE (IF sess[p].locked THEN [active_records EXCEPT ![sess[p].prev] = FALSE]
                                 ELSE active_records) @@ (sess[p].act_id :> TRUE)
    /\ UNCHANGED <<relations, relSeq, actSeq, clock>>

\* A failed write whose rollback leaves the session holding the row lock.
rollback_holding_lock(p) ==
    /\ pc[p] \in {"flush_active_records", "flush_relations", "commit"}
    /\ response' = Response(p, call[p], "InternalServerError", "StorageError", TRUE, NoRelation)
    /\ pc' = [pc EXCEPT ![p] = "idle"]
    /\ sess' = [sess EXCEPT ![p] =
                 [EmptySession EXCEPT !.prev = sess[p].prev, !.locked = sess[p].locked]]
    /\ call' = [call EXCEPT ![p] = NoCall]
    /\ UNCHANGED <<relations, active_records, relSeq, actSeq, clock>>

\* A failed write after which the request attempts its flush again.
rollback_retrying(p) ==
    /\ pc[p] \in {"flush_active_records", "flush_relations", "commit"}
    /\ pc' = [pc EXCEPT ![p] = "flush_active_records"]
    /\ sess' = [sess EXCEPT ![p].locked = FALSE, ![p].act_id = Null, ![p].rel_id = Null]
    /\ response' = NoResponse
    /\ UNCHANGED <<relations, active_records, relSeq, actSeq, clock, call>>

\* except Exception: db.session.rollback(); raise StorageError.  A statement
\* of the flush or the COMMIT fails: nothing the session wrote is kept, the
\* lock is released; the keys drawn from the auto-increments stay drawn.
rollback(p) ==
    /\ pc[p] \in {"flush_active_records", "flush_relations", "commit"}
    /\ Raise(p, call[p], "StorageError", TRUE)
    /\ UNCHANGED <<relations, active_records, relSeq, actSeq, clock>>

\* controllers.retrieve: from_e_print on the committed tables, each Relation
\* as its field dictionary, in the result dictionary with HTTPStatus.OK; a
\* DBLookUpError is raised as InternalServerError.
retrieve(p) ==
    /\ pc[p] = "idle"
    /\ \E e \in EPrints, active_only \in BOOLEAN, io \in BOOLEAN :
         LET c == Incoming("retrieve", [NoSubmission EXCEPT !.arxiv_id = e.arxiv_id, !.arxiv_ver = e.arxiv_ver], "")
             rels == from_e_print(e.arxiv_id, e.arxiv_ver, active_only)
             dicts == { relation_from_DB(n, relations[n]) : n \in rels } IN
         IF io
         THEN Raise(p, c, "DBLookUpError", TRUE)
         ELSE /\ response' =
                   [ Response(p, c, "OK", "none", FALSE, NoRelation) EXCEPT
                       !.active_only = active_only,
                       !.result = RetrieveResult(e.arxiv_id, e.arxiv_ver, dicts) ]
              /\ UNCHANGED <<pc, call, sess>>
    /\ UNCHANGED <<relations, active_records, relSeq, actSeq, clock>>

Next ==
    \E p \in Workers :
       \/ retrieve(p)
       \/ create_new(p)
       \/ supercede_is_active(p)
       \/ suppress_from_id(p)
       \/ suppress_is_active(p)
       \/ supercede(p)
       \/ suppress(p)
       \/ flush_active_records(p)
       \/ flush_relations(p)
       \/ commit(p)
       \/ rollback(p)

Spec == Init /\ [][Next]_vars

\* The store with two lineages: two create_new requests have committed one
\* after the other, at times 0 and 1, and a further request may have been
\* rolled back after its flush, which leaves active_records' sequence one
\* ahead.  No request is in progress.
Init_TwoLineages ==
    /\ relations =
         [ n \in 1..2 |->
             LET c == Incoming("create_new",
                               [arxiv_id |-> "1234.56789", arxiv_ver |-> 1,
                                payload |-> FullPayload], "") IN
             RelationDB("ADD", c, c.payload.resource_type,
                        c.payload.resource_id, n - 1, Null) ]
    /\ active_records = [ n \in 1..2 |-> TRUE ]
    /\ relSeq = 3
    /\ actSeq \in {3, 4}
    /\ clock = 2
    /\ pc = [p \in Workers |-> "idle"]
    /\ call = [p \in Workers |-> NoCall]
    /\ sess = [p \in Workers |-> EmptySession]
    /\ response = NoResponse

Spec_TwoLineages == Init_TwoLineages /\ [][Next]_vars

\* A worker that has taken a request keeps running it: each step of the
\* controller and of the service is taken once it can be, and a flush that
\* waits for a row lock gets the lock when it is released again and again
\* (the store queues the waiting sessions).  Nothing obliges a request to
\* arrive or a write to fail.
Fairness ==
    \A p \in Workers :
       /\ WF_vars(suppress_is_active(p))
       /\ WF_vars(supercede(p))
       /\ WF_vars(suppress(p))
       /\ SF_vars(flush_active_records(p))
       /\ WF_vars(flush_relations(p))
       /\ WF_vars(commit(p))

Spec_Fair == Init /\ [][Next]_vars /\ Fairness

\* ------------------------------------------------------------------ claims
\* The activation flag a reader finds under key id is true.
ActiveFlag(id) == id \in DOMAIN active_records /\ active_records[id]

\* The predecessor the response's request named, as a key.
ResponsePred == CoerceId(response.relation_id)

\* The key of the relation the response returns.
ResponseId == response.rel.identifier.ival

\* A supercede or suppress request has just been answered with a relation.
Succeeded ==
    response.status = "OK" /\ response.op \in {"supercede", "suppress"}

\* Whether following the predecessor references from n reaches a, in at most
\* k steps.
RECURSIVE Reaches(_, _, _)
Reaches(n, a, k) ==
    IF n = a THEN TRUE
    ELSE IF k = 0 \/ n \notin DOMAIN relations THEN FALSE
    ELSE Reaches(relations[n].supercedes_or_suppresses, a, k - 1)

\* The lineage chain of the ADD relation a.
Lineage(a) ==
    { n \in DOMAIN relations : Reaches(n, a, Cardinality(DOMAIN relations)) }

\* C1: when a supercede or suppress call succeeds against a predecessor that
\* no relation named when the call checked that it is active, no other call
\* has succeeded against that predecessor in the meantime: the relation the
\* call returns is the only one that names the predecessor.
C1_OneOfTwoConcurrentCallsSucceeds ==
    (Succeeded /\ response.fresh) => Successors(ResponsePred) = {ResponseId}

\* C2: in every committed state every lineage chain, the relations that lead
\* back to one ADD relation, holds exactly one relation whose activation flag
\* is true.
C2_OneActiveHeadPerLineage ==
    \A a \in DOMAIN relations :
       relations[a].rel_type = "ADD" =>
         Cardinality({ n \in Lineage(a) : ActiveFlag(n) }) = 1

\* C3: in every committed state a relation's activation flag is true if and
\* only if no stored relation names it as its predecessor.
C3_ActiveIffNoSuccessor ==
    \A n \in DOMAIN relations : ActiveFlag(n) <=> Successors(n) = {}

\* C4: when a supercede call on an existing predecessor P has succeeded and
\* returned N, then P is inactive, N is active, N is an EDIT and from_id of
\* N's identifier names P as predecessor.
C4_SupercedeRetiresPredecessor ==
    (response.status = "OK" /\ response.op = "supercede"
       /\ ResponsePred \in DOMAIN relations) =>
      /\ ~ActiveFlag(ResponsePred)
      /\ ActiveFlag(ResponseId)
      /\ response.rel.relation_type = "EDIT"
      /\ from_id(StrOfId(ResponseId)).supercedes_or_suppresses = PyInt(ResponsePred)

\* C5: in every state at most one stored relation names any given relation
\* as its predecessor.
C5_AtMostOneSuccessor ==
    \A id \in DOMAIN relations : Cardinality(Successors(id)) <= 1

\* C6: no stored relation has a relation of type SUPPRESS as its predecessor.
C6_SuppressIsTerminal ==
    \A n \in DOMAIN relations :
       LET pred == relations[n].supercedes_or_suppresses IN
       pred \in DOMAIN relations => relations[pred].rel_type # "SUPPRESS"

\* C7: a reader of the committed tables never finds a predecessor and the
\* relation that names it both active, never finds both inactive unless the
\* newer one has itself been retired, and never finds an activation record
\* false while no relation that names its key is visible.
C7_NoIntermediateStateVisible ==
    /\ \A n \in DOMAIN relations :
         LET pred == relations[n].supercedes_or_suppresses IN
         pred \in DOMAIN relations =>
           /\ ~(ActiveFlag(pred) /\ ActiveFlag(n))
           /\ (~ActiveFlag(pred) /\ ~ActiveFlag(n)) => Successors(n) # {}
    /\ \A k \in DOMAIN active_records :
         ~active_records[k] => Successors(k) # {}

\* C8: in every committed state each stored relation has an activation record
\* under its own identifier, and every activation record's key is the
\* identifier of a stored relation.
C8_ActivationKeyedByRelation == DOMAIN active_records = DOMAIN relations

\* Worker p's step is the is-active check of a supercede or suppress request
\* and lets the request pass on to the service.
Passes(p) ==
    pc[p] \in {"idle", "is_active"} /\ pc'[p] \in {"supercede", "suppress"}

\* Worker p's step answers a supercede or suppress request, and the database
\* has not failed it.
Answers(p) ==
    /\ pc[p] # pc'[p] \/ response' # response
    /\ response'.worker = p
    /\ response'.op \in {"supercede", "suppress"}
    /\ ~response'.io

\* C9: a supercede or suppress request whose predecessor identifier names no
\* stored relation is answered with NotFoundError by a step that writes
\* nothing, and is never let through to the service.
C9_UnknownPredecessorIsNotFound ==
    [][\A p \in Workers :
         /\ (Answers(p) /\ CoerceId(response'.relation_id) \notin DOMAIN relations')
              => /\ response'.error = "NotFoundError"
                 /\ UNCHANGED <<relations, active_records>>
         /\ Passes(p) => CoerceId(call'[p].relation_id) \in DOMAIN relations
      ]_vars

\* The relation with key k is stored and its activation record is false.
Retired(k) ==
    /\ k \in DOMAIN relations
    /\ k \in DOMAIN active_records
    /\ ~active_records[k]

\* C10: a supercede or suppress request whose predecessor is stored and
\* already inactive when the controller checks it, as it is once a request
\* against it has succeeded, is answered with the inactive-predecessor error
\* by a step that writes nothing, and is never let through to the service.
C10_InactivePredecessorIsRejected ==
    [][\A p \in Workers :
         /\ (Answers(p) /\ pc[p] \in {"idle", "is_active"}
               /\ Retired(CoerceId(response'.relation_id)))
              => /\ response'.error = "Inactive"
                 /\ UNCHANGED <<relations, active_records>>
         /\ Passes(p) => ~Retired(CoerceId(call'[p].relation_id))
      ]_vars

\* A request against a predecessor that a committed relation already names
\* has been answered with the inactive-predecessor error.
C10_Witness ==
    /\ response.error = "Inactive"
    /\ response.op \in {"supercede", "suppress"}
    /\ Successors(ResponsePred) # {}
    /\ Retired(ResponsePred)

\* Worker p's step ends a request whose writes were under way (a statement of
\* the flush or the COMMIT was next) without committing it.
Aborts(p) ==
    /\ pc[p] \in {"flush_active_records", "flush_relations", "commit"}
    /\ pc'[p] = "idle"
    /\ response'.status # "OK"

\* C11: when the transactional write of a create, supercede or suppress
\* request fails before its commit completes, the request is answered with
\* StorageError and the step leaves the committed tables as they were: no
\* relation and no activation record is added, and the activation record of
\* the predecessor keeps its flag.
C11_FailedWriteIsRolledBack ==
    [][\A p \in Workers :
         Aborts(p) =>
           /\ response'.worker = p
           /\ response'.error = "StorageError"
           /\ UNCHANGED <<relations, active_records>>
      ]_vars

\* A supercede or suppress request whose UPDATE and INSERTs had been emitted
\* has been answered with StorageError, and its predecessor is still active
\* and still has no successor.
C11_Witness ==
    /\ response.error = "StorageError"
    /\ response.io
    /\ response.op \in {"supercede", "suppress"}
    /\ ActiveFlag(ResponsePred)
    /\ ResponsePred \in DOMAIN relations
    /\ Successors(ResponsePred) = {}

\* A create_new request has just been answered with a relation.
Created == response.status = "OK" /\ response.op = "create_new"

\* C12: every successful create returns a relation of type ADD with no
\* predecessor, and is_active of the returned identifier is true when the
\* call returns.
C12_CreatedIsActiveAdd ==
    Created =>
      /\ response.rel.relation_type = "ADD"
      /\ response.rel.supercedes_or_suppresses = PyNone
      /\ is_active_error(StrOfId(ResponseId)) = "ok"
      /\ is_active(StrOfId(ResponseId))

\* Worker p's step is the COMMIT of a create_new request.
CommitsCreate(p) ==
    /\ pc[p] = "commit"
    /\ call[p].op = "create_new"
    /\ response'.worker = p
    /\ response'.status = "OK"

\* C13: the commit of a create adds exactly one relation and exactly one
\* activation record, whose flag is true, and leaves every relation and every
\* activation record stored before as it was.
C13_CreateAddsOneOfEach ==
    [][\A p \in Workers :
         CommitsCreate(p) =>
           /\ \E n \in DOMAIN relations' :
                /\ n \notin DOMAIN relations
                /\ DOMAIN relations' = DOMAIN relations \cup {n}
           /\ \E k \in DOMAIN active_records' :
                /\ k \notin DOMAIN active_records
                /\ DOMAIN active_records' = DOMAIN active_records \cup {k}
                /\ active_records'[k]
           /\ \A n \in DOMAIN relations : relations'[n] = relations[n]
           /\ \A k \in DOMAIN active_records :
                active_records'[k] = active_records[k]
      ]_vars

\* A create has been answered with a relation while other relations and
\* other activation records were stored.
C13_Witness ==
    /\ Created
    /\ Cardinality(DOMAIN relations) >= 2
    /\ Cardinality(DOMAIN active_records) >= 2

\* The outcome of the checks controllers.supercede makes on the predecessor
\* before it calls the service, on the committed tables: "ok" when the
\* request is accepted, else the reason it is rejected for.
supercede_checks(id) == is_active_check(id, FALSE)

\* The outcome of the checks controllers.suppress makes on the predecessor
\* before it calls the service: from_id, then the is_active check.
suppress_checks(id) ==
    IF from_id_error(id) # "ok" THEN from_id_error(id)
    ELSE is_active_check(id, FALSE)

\* C14: supercede and suppress have the same preconditions: in every store
\* state and for every predecessor identifier (here every decimal one; the
\* identifier that is no number is the case of C9) supercede is accepted
\* exactly when suppress is, and both are rejected for the same reason.
C14_SamePreconditions ==
    \A n \in 1..MaxId : supercede_checks(StrOfId(n)) = suppress_checks(StrOfId(n))

\* C15: every stored relation of type SUPPRESS has a stored predecessor and
\* the same resource type and resource identifier as that predecessor,
\* whatever the payload of the suppress request held.
C15_SuppressCopiesResource ==
    \A n \in DOMAIN relations :
       relations[n].rel_type = "SUPPRESS" =>
         LET pred == relations[n].supercedes_or_suppresses IN
         /\ pred \in DOMAIN relations
         /\ relations[n].resource_type = relations[pred].resource_type
         /\ relations[n].resource_id = relations[pred].resource_id

\* A SUPPRESS relation is stored whose request carried a payload without
\* description (EmptyPayload or ShortPayload, whose resource fields are not
\* those of FullPayload) and whose resource is the one of FullPayload.
C15_Witness ==
    \E n \in DOMAIN relations :
       /\ relations[n].rel_type = "SUPPRESS"
       /\ relations[n].description = ""
       /\ relations[n].resource_type = FullPayload.resource_type
       /\ relations[n].resource_id = FullPayload.resource_id

\* The stored relations of e-print e.
RelationsOf(e) ==
    { n \in DOMAIN relations :
        relations[n].arxiv_id = e.arxiv_id /\ relations[n].arxiv_ver = e.arxiv_ver }

\* C16: for every e-print, from_e_print with active_only=True returns exactly
\* the stored relations of the e-print that no stored relation names as its
\* predecessor, and with active_only=False exactly all stored relations of
\* the e-print.
C16_ListingIsRelationsWithoutSuccessor ==
    \A e \in EPrints :
       /\ from_e_print(e.arxiv_id, e.arxiv_ver, TRUE)
            = { n \in RelationsOf(e) : Successors(n) = {} }
       /\ from_e_print(e.arxiv_id, e.arxiv_ver, FALSE) = RelationsOf(e)

\* C17: from_e_print with active_only=True never returns a relation of type
\* SUPPRESS.
C17_ActiveListingHasNoSuppress ==
    \A e \in EPrints :
       \A n \in from_e_print(e.arxiv_id, e.arxiv_ver, TRUE) :
          relations[n].rel_type # "SUPPRESS"

C19_ReturnedAgreesWithStored ==
    (Created \/ Succeeded) =>
      /\ from_id_error(StrOfId(ResponseId)) = "ok"
      /\ from_id(StrOfId(ResponseId)) = response.rel

\* C20: in every state a stored relation has no predecessor if and only if
\* its type is ADD.
C20_NullPredecessorIffAdd ==
    \A n \in DOMAIN relations :
       relations[n].supercedes_or_suppresses = Null <=> relations[n].rel_type = "ADD"

\* Relations of all three types are stored.
C20_Witness ==
    \A t \in RelationType : \E n \in DOMAIN relations : relations[n].rel_type = t

\* Worker p's step is the COMMIT of a supercede or suppress request.
CommitsSuccessor(p) ==
    /\ pc[p] = "commit"
    /\ call[p].op \in {"supercede", "suppress"}
    /\ response'.worker = p
    /\ response'.status = "OK"

\* C21: relation records are append-only: no step of a create, supercede,
\* suppress or retrieve request changes or removes a stored relation, and the
\* only change a step makes to a stored activation record is the one the
\* commit of a supercede or suppress makes to the flag of its predecessor.
C21_RelationsAreAppendOnly ==
    [][/\ \A n \in DOMAIN relations :
            n \in DOMAIN relations' /\ relations'[n] = relations[n]
       /\ \A k \in DOMAIN active_records :
            /\ k \in DOMAIN active_records'
            /\ active_records'[k] # active_records[k] =>
                 \E p \in Workers :
                    CommitsSuccessor(p) /\ k = CoerceId(call[p].relation_id)
      ]_vars

\* A supercede or suppress has committed on a store that held its
\* predecessor and a further relation.
C21_Witness ==
    /\ Succeeded
    /\ ResponsePred \in DOMAIN relations
    /\ ~ActiveFlag(ResponsePred)
    /\ \E n \in DOMAIN relations : n \notin {ResponsePred, ResponseId}

\* C22: an activation record is created true, is never deleted, and its flag
\* only ever falls: no step turns a false flag true, so a record changes at
\* most once, from true to false.
C22_ActivationOnlyFalls ==
    [][/\ \A k \in DOMAIN active_records :
            /\ k \in DOMAIN active_records'
            /\ active_records'[k] => active_records[k]
       /\ \A k \in DOMAIN active_records' \ DOMAIN active_records :
            active_records'[k]
      ]_vars

\* A successor has committed against a predecessor whose record another
\* successor had already turned false.
C22_Witness ==
    /\ Succeeded
    /\ ResponsePred \in DOMAIN active_records
    /\ ~active_records[ResponsePred]
    /\ \E n \in DOMAIN relations :
         /\ n # ResponseId
         /\ relations[n].supercedes_or_suppresses = ResponsePred

\* C23: supercede and suppress requests against different active
\* predecessors do not interfere: neither fails because of the other, each
\* returned relation names the predecessor of its own request, and once the
\* requests are done each predecessor is inactive and each new relation is
\* active.
C23_DifferentPredecessorsBothSucceed ==
    /\ (/\ response.op \in {"supercede", "suppress"}
        /\ response.status # "OK"
        /\ ResponsePred \in DOMAIN relations
        /\ ActiveFlag(ResponsePred)
        /\ Successors(ResponsePred) = {})
       => response.io \/ response.error = "KeyError"
    /\ Succeeded =>
         /\ ResponseId \in DOMAIN relations
         /\ relations[ResponseId].supercedes_or_suppresses = ResponsePred
    /\ (\A p \in Workers : pc[p] = "idle") =>
         \A a, b \in DOMAIN relations :
            LET pa == relations[a].supercedes_or_suppresses
                pb == relations[b].supercedes_or_suppresses IN
            (/\ pa # Null /\ pb # Null /\ pa # pb
             /\ Successors(a) = {} /\ Successors(b) = {})
            => /\ ~ActiveFlag(pa) /\ ~ActiveFlag(pb)
               /\ ActiveFlag(a) /\ ActiveFlag(b)

\* C24: timestamps follow the insertion order: when a relation is committed,
\* no relation committed before it under a smaller identifier has a later
\* added_at.
C24_TimestampsFollowInsertion ==
    [][\A p \in Workers :
         CommitsCreate(p) \/ CommitsSuccessor(p) =>
            \A a \in DOMAIN relations :
               a < sess[p].rel_id =>
                  relations[a].added_at <= relations'[sess[p].rel_id].added_at
      ]_vars

\* C25: from_id raises NotFoundError exactly when no relation is stored under
\* the identifier, an identifier that is no number included, and a suppress
\* request is answered with DBLookUpError only when the read itself failed.
C25_NotFoundExactlyWhenAbsent ==
    /\ \A id \in RelationIdStrs :
         from_id_error(id) = "NotFoundError" => CoerceId(id) \notin DOMAIN relations
    /\ (/\ response.op = "suppress"
        /\ ~response.io
        /\ CoerceId(response.relation_id) \notin DOMAIN relations)
       => response.error = "NotFoundError"
    /\ (response.op = "suppress" /\ response.error = "DBLookUpError")
       => response.io

\* C26: create_new and supercede store nothing for a payload whose resource
\* type or resource identifier is missing or empty: every stored relation of
\* type ADD or EDIT has both, non-empty.
C26_ResourceIsRequired ==
    \A n \in DOMAIN relations :
       relations[n].rel_type \in {"ADD", "EDIT"} =>
          /\ relations[n].resource_type \notin {"", NoKey}
          /\ relations[n].resource_id \notin {"", NoKey}

\* C27: every failure of create_new, supercede, suppress and retrieve is
\* answered with InternalServerError, and a request that fails because its
\* predecessor is not found, cannot be looked up or is inactive, or because
\* its payload lacks a key, ends there: the step writes nothing and the
\* worker holds no session and goes on to no service call.
C27_FailuresAreInternalServerError ==
    [][response'.status \notin {"OK", "none"} =>
         /\ response'.status = "InternalServerError"
         /\ response'.error \in {"NotFoundError", "DBLookUpError", "Inactive", "KeyError"} =>
              /\ UNCHANGED <<relations, active_records>>
              /\ pc'[response'.worker] = "idle"
              /\ sess'[response'.worker] = EmptySession
      ]_vars

\* A supercede request that passed the check has failed on a missing payload
\* key, and its predecessor is still active.
C27_Witness ==
    /\ response.op = "supercede"
    /\ response.status = "InternalServerError"
    /\ response.error = "KeyError"
    /\ ResponsePred \in DOMAIN relations
    /\ ActiveFlag(ResponsePred)

\* C28: the failures are reported in distinct classes: a predecessor that is
\* not found as 404, a predecessor already inactive as 409, a storage failure
\* as a 5xx status.
C28_DistinctFailureClasses ==
    /\ response.error = "NotFoundError" => HTTPStatusCode(response.status) = 404
    /\ response.error = "Inactive" => HTTPStatusCode(response.status) = 409
    /\ response.error = "StorageError" => HTTPStatusCode(response.status) \in 500..599

\* The keys of a result dictionary, as Python values.
ResultKeys(result) == { PyStr(k) : k \in DOMAIN result }

\* C29: the dictionary retrieve returns with status OK has exactly one entry
\* per matching relation, keyed by the relation's identifier.
C29_RetrieveIsKeyedByIdentifier ==
    (response.op = "retrieve" /\ response.status = "OK") =>
       LET rels == from_e_print(response.result.arxiv_id,
                                response.result.version,
                                response.active_only) IN
       /\ Cardinality(DOMAIN response.result) = Cardinality(rels)
       /\ ResultKeys(response.result) = { PyInt(n) : n \in rels }

\* C30: referential integrity: the predecessor of every stored relation is
\* null or the key of a stored relation.
C30_PredecessorIsStored ==
    \A n \in DOMAIN relations :
       relations[n].supercedes_or_suppresses # Null =>
          relations[n].supercedes_or_suppresses \in DOMAIN relations

\* C31: relation identifiers are never reused: the identifier a committing
\* create, supercede or suppress returns is an integer under which no relation
\* was stored before, which no other open session holds, and under which the
\* new relation is stored; rolled back requests included, the sequence of
\* 'relations' never goes back.
C31_IdentifiersAreNeverReused ==
    [][/\ relSeq' >= relSeq
       /\ \A p \in Workers :
            CommitsCreate(p) \/ CommitsSuccessor(p) =>
               LET id == response'.rel.identifier IN
               /\ id = PyInt(sess[p].rel_id)
               /\ id.ival \notin DOMAIN relations
               /\ id.ival < relSeq
               /\ \A q \in Workers \ {p} : sess[q].rel_id # id.ival
               /\ DOMAIN relations' = DOMAIN relations \cup {id.ival}
      ]_vars

\* A create has returned identifier 2 after the request that drew
\* identifier 1 was rolled back.
C31_Witness ==
    /\ Created
    /\ ResponseId = 2
    /\ DOMAIN relations = {2}
    /\ \A p \in Workers : pc[p] = "idle"

\* C32: a create, supercede or suppress request makes at most one attempt to
\* write: from its flush and its commit the request only goes forward or ends,
\* and a failed write ends it with StorageError, the worker idle and nothing
\* of the request left in the session.
C32_AtMostOneCommitAttempt ==
    [][\A p \in Workers :
         /\ pc[p] = "flush_active_records" =>
              pc'[p] \in {"flush_active_records", "flush_relations", "idle"}
         /\ pc[p] = "flush_relations" =>
              pc'[p] \in {"flush_relations", "commit", "idle"}
         /\ pc[p] = "commit" => pc'[p] \in {"commit", "idle"}
         /\ (/\ pc[p] \in {"flush_active_records", "flush_relations", "commit"}
             /\ pc'[p] = "idle") =>
              /\ response'.worker = p
              /\ call'[p] = NoCall
              /\ sess'[p] = EmptySession
              /\ response'.status # "OK" =>
                   /\ response'.status = "InternalServerError"
                   /\ response'.error = "StorageError"
      ]_vars

\* A request whose write failed after both of its INSERTs has been answered
\* with StorageError, and no worker is writing.
C32_Witness ==
    /\ response.error = "StorageError"
    /\ response.io
    /\ relSeq = 2
    /\ DOMAIN relations = {}
    /\ \A p \in Workers : pc[p] = "idle"

\* C33: a stored relation that has a stored predecessor belongs to the
\* predecessor's e-print: the same arXiv id and the same version.
C33_SuccessorKeepsEPrint ==
    \A n \in DOMAIN relations :
       LET pred == relations[n].supercedes_or_suppresses IN
       pred \in DOMAIN relations =>
          /\ relations[n].arxiv_id = relations[pred].arxiv_id
          /\ relations[n].arxiv_ver = relations[pred].arxiv_ver

\* C34: the services enforce the single successor themselves: a call of
\* create.supercede or create.suppress that found the predecessor's flag
\* already false when it loaded the activation record commits nothing.
C34_ServiceRefusesInactivePredecessor ==
    [][\A p \in Workers : CommitsSuccessor(p) => sess[p].dirty]_vars

\* C35: the predecessor references are acyclic: a relation committed with a
\* predecessor names a relation that was committed before it, no relation is
\* its own predecessor, and from every stored relation the references lead to
\* a stored ADD relation.
C35_PredecessorsAreAcyclic ==
    [][\A n \in DOMAIN relations' :
         LET pred == relations'[n].supercedes_or_suppresses IN
         /\ pred # n
         /\ (n \notin DOMAIN relations /\ pred # Null) => pred \in DOMAIN relations
         /\ \E a \in DOMAIN relations' :
              /\ relations'[a].rel_type = "ADD"
              /\ Reaches(n, a, MaxId)'
      ]_vars

\* C36: for every e-print the active listing is part of the full listing,
\* its query returns no relation in two rows, and both listings hold only
\* relations of the queried arXiv id and version.
C36_ActiveListingIsPartOfListing ==
    \A e \in EPrints :
       /\ from_e_print(e.arxiv_id, e.arxiv_ver, TRUE)
             \subseteq from_e_print(e.arxiv_id, e.arxiv_ver, FALSE)
       /\ \A r1, r2 \in active_rows(e.arxiv_id, e.arxiv_ver) :
             r1[1] = r2[1] => r1 = r2
       /\ \A n \in from_e_print(e.arxiv_id, e.arxiv_ver, FALSE) :
             /\ relations[n].arxiv_id = e.arxiv_id
             /\ relations[n].arxiv_ver = e.arxiv_ver

\* An e-print has an active relation and an inactive one, and a relation of
\* another version is stored.
C36_Witness ==
    \E e \in EPrints :
       /\ from_e_print(e.arxiv_id, e.arxiv_ver, TRUE) # {}
       /\ from_e_print(e.arxiv_id, e.arxiv_ver, TRUE)
             # from_e_print(e.arxiv_id, e.arxiv_ver, FALSE)
       /\ \E n \in DOMAIN relations : relations[n].arxiv_ver # e.arxiv_ver

\* C37: every create, supercede and suppress request that a worker has taken
\* finishes, committed or rolled back, and a worker that is not in a request
\* holds nothing of one: no pending row, no drawn key, no row lock.
C37_EveryCallFinishes ==
    /\ [](\A p \in Workers :
            pc[p] = "idle" => sess[p] = EmptySession /\ call[p] = NoCall)
    /\ \A p \in Workers : (pc[p] # "idle") ~> (pc[p] = "idle")

\* Two requests that wrote against the same predecessor, and so needed the
\* same row lock, have both finished: the workers are idle again.
C37_Witness ==
    /\ \A p \in Workers : pc[p] = "idle"
    /\ \E a, b \in DOMAIN relations :
         /\ a # b
         /\ relations[a].supercedes_or_suppresses # Null
         /\ relations[a].supercedes_or_suppresses = relations[b].supercedes_or_suppresses

====
